---- MODULE Spec2Model ----
(***************************************************************************)
(* Model of vuefire's snapshot utilities:                                  *)
(*   src/src/firestore/utils.ts  firestoreDefaultConverter, extractRefs    *)
(*   src/src/database/utils.ts   createRecordFromDatabaseSnapshot          *)
(*                                                                         *)
(* JavaScript objects and arrays live in a heap (a sequence of cells, an   *)
(* address is an index), so that object identity, aliasing and in-place    *)
(* writes are those of the code.  A value is a record tagged by t.         *)
(***************************************************************************)
EXTENDS Integers, Sequences, FiniteSets, TLC

VARIABLES heap, pc, snap, doc, oldDoc, subs, pre, out, first, dbSnap, record

vars == <<heap, pc, snap, doc, oldDoc, subs, pre, out, first, dbSnap, record>>

----------------------------------------------------------------------------
(* Bounds of the model *)

\* longest array in a document
MaxLen == 2
\* most entries in the subscription registry
MaxSubs == 2

----------------------------------------------------------------------------
(* Values *)

Undef == [t |-> "undef"]
Null == [t |-> "null"]
Prim(s) == [t |-> "prim", v |-> s]
\* Date, Timestamp, GeoPoint: opaque to the walker
Opaque(s) == [t |-> "date", v |-> s]
\* a DocumentReference: its path and its converter ("none" when it has none)
Ref(p, c) == [t |-> "ref", path |-> p, conv |-> c]
Ptr(a) == [t |-> "ptr", a |-> a]

\* a property descriptor: value, enumerable, writable
Desc(v, e, w) == [v |-> v, e |-> e, w |-> w]

EmptyMap == [k \in {} |-> Undef]

\* {} and Array(n)
NewObject == [kind |-> "obj", keys |-> <<>>, p |-> EmptyMap, len |-> 0]
NewArray(n) == [kind |-> "arr", keys |-> <<>>, p |-> EmptyMap, len |-> n]

\* the property name of an array index
IndexKey(i) == <<"0", "1", "2", "3", "4", "5">>[i + 1]

IsPtr(v) == v.t = "ptr"

\* JavaScript truthiness (x || y, x && y)
Truthy(v) ==
  /\ v.t \notin {"undef", "null"}
  /\ ~(v.t = "prim" /\ v.v = "")

\* shared isObject(o): o && typeof o === 'object'
isObject(v) == v.t \in {"ptr", "ref", "date"}

\* shared isDocumentRef(o): isObject(o) && o.type === 'document'
isDocumentRef(v) == v.t = "ref"

\* Array.isArray
IsArray(h, v) == IsPtr(v) /\ h[v.a].kind = "arr"

\* shared isPOJO(obj): a plain object, neither an array nor a class instance
isPOJO(h, v) == IsPtr(v) /\ h[v.a].kind = "obj"

HasOwn(h, a, k) == k \in DOMAIN h[a].p

\* v[k]: a property read.  Reading past a string gives one of its characters
\* for an index and undefined otherwise; a reference exposes its path.
Get(h, v, k) ==
  CASE v.t = "ptr" ->
         IF HasOwn(h, v.a, k) THEN h[v.a].p[k].v ELSE Undef
    [] v.t = "ref" -> IF k = "path" THEN Prim(v.path) ELSE Undef
    [] v.t = "prim" ->
         IF k \in {"0", "1", "2", "3", "4", "5"} /\ v.v # ""
         THEN Prim("?") ELSE Undef
    [] OTHER -> Undef

IsIndex(k) == \E i \in 0..5 : IndexKey(i) = k
IndexOf(k) == CHOOSE i \in 0..5 : IndexKey(i) = k

\* the length an array of length n has once index property k is defined on it
GrownLen(n, k) ==
  IF IsIndex(k) /\ IndexOf(k) >= n THEN IndexOf(k) + 1 ELSE n

\* own property order: index keys ascending, then the others as created
RECURSIVE InsertKey(_, _)
InsertKey(keys, k) ==
  IF keys = <<>> THEN <<k>>
  ELSE IF IsIndex(k) /\ (~IsIndex(Head(keys)) \/ IndexOf(Head(keys)) > IndexOf(k))
       THEN <<k>> \o keys
       ELSE <<Head(keys)>> \o InsertKey(Tail(keys), k)

\* Object.defineProperty(o, k, d) on a fresh or configurable property
DefineProperty(h, a, k, d) ==
  [h EXCEPT ![a] =
     [@ EXCEPT !.keys = IF k \in DOMAIN h[a].p THEN @ ELSE InsertKey(@, k),
               !.p = (k :> d) @@ @,
               !.len = IF h[a].kind = "arr" THEN GrownLen(@, k) ELSE @]]

\* o[k] = v: creates an enumerable writable property, overwrites a writable
\* one, and leaves a read-only one alone
Put(h, a, k, v) ==
  IF HasOwn(h, a, k)
  THEN IF h[a].p[k].w
       THEN [h EXCEPT ![a].p[k].v = v]
       ELSE h
  ELSE DefineProperty(h, a, k, Desc(v, TRUE, TRUE))

\* the enumerable own property names, in for-in order
RECURSIVE EnumKeysFrom(_, _)
EnumKeysFrom(c, i) ==
  IF i > Len(c.keys) THEN <<>>
  ELSE IF c.p[c.keys[i]].e
       THEN <<c.keys[i]>> \o EnumKeysFrom(c, i + 1)
       ELSE EnumKeysFrom(c, i + 1)

EnumKeys(c) == EnumKeysFrom(c, 1)

----------------------------------------------------------------------------
(* The subscription registry: a sequence of entries [key, path, data] in   *)
(* Object.keys order; data is what the entry's data() returns.             *)

InSubs(s, k) == \E i \in 1..Len(s) : s[i].key = k

RECURSIVE subsByPathFrom(_, _, _)
subsByPathFrom(s, i, acc) ==
  IF i > Len(s) THEN acc
  ELSE subsByPathFrom(s, i + 1, (s[i].path :> s[i].data) @@ acc)

\* Object.keys(subs).reduce(...): path -> data(), the last entry of a path wins
subsByPath(s) == subsByPathFrom(s, 1, EmptyMap)

\* newRef && newRef.path in subsByPath
InPathIndex(h, s, v) ==
  /\ Truthy(v)
  /\ LET q == Get(h, v, "path")
     IN q.t = "prim" /\ q.v \in DOMAIN subsByPath(s)

----------------------------------------------------------------------------
(* extractRefs (firestore/utils.ts).  The walker's state is the heap h and *)
(* the refs map r; data containers are heap cells it allocates.            *)

\* refSubKey = path + key
SubKey(path, key) == path \o key

\* mutant: the reference itself is stored where its path should be
RefValueRaw(h, s, old, path, key, ref) ==
  IF InSubs(s, SubKey(path, key)) THEN Get(h, old, key) ELSE ref

\* mutant: the path is stored even when the reference is already bound
RefValuePath(h, s, old, path, key, ref) == Prim(ref.path)

\* mutant: a bound reference is replaced by what its registry entry resolves to
RefValueFromRegistry(h, s, old, path, key, ref) ==
  IF InSubs(s, SubKey(path, key))
  THEN s[CHOOSE i \in 1..Len(s) : s[i].key = SubKey(path, key)].data
  ELSE Prim(ref.path)

\* refSubKey in subs ? oldDoc[key] : ref.path
RefValue(h, s, old, path, key, ref) ==
  IF InSubs(s, SubKey(path, key)) THEN Get(h, old, key) ELSE Prim(ref.path)

\* ref.converter ? ref : ref.withConverter(options.converter)
RefEntry(ref) ==
  IF ref.conv # "none" THEN ref ELSE [ref EXCEPT !.conv = "default"]

RECURSIVE CopyDescriptorsFrom(_, _, _, _)
CopyDescriptorsFrom(h, docA, dataA, i) ==
  IF i > Len(h[docA].keys) THEN h
  ELSE LET k == h[docA].keys[i]
           d == h[docA].p[k]
       IN CopyDescriptorsFrom(IF ~d.e THEN DefineProperty(h, dataA, k, d) ELSE h,
                              docA, dataA, i + 1)

\* mutant: the non-enumerable properties are not carried over
CopyNonEnumerableSkipped(h, docA, dataA) ==
  IF h[docA].kind = "arr"
  THEN [h EXCEPT ![dataA].len = h[docA].len]
  ELSE h

\* Object.getOwnPropertyNames(doc).forEach(...): every non-enumerable own
\* property of doc is defined on data with the same descriptor; an array's
\* only such property is its length
CopyNonEnumerable(h, docA, dataA) ==
  LET h1 == CopyDescriptorsFrom(h, docA, dataA, 1)
  IN IF h[docA].kind = "arr"
     THEN [h1 EXCEPT ![dataA].len = h[docA].len]
     ELSE h1

RECURSIVE FillExistingFrom(_, _, _, _, _)
FillExistingFrom(h, s, arr, na, i) ==
  IF i >= h[arr.a].len THEN h
  ELSE LET newRef == Get(h, arr, IndexKey(i))
           h1 == IF InPathIndex(h, s, newRef)
                 THEN Put(h, na, IndexKey(i), subsByPath(s)[Get(h, newRef, "path").v])
                 ELSE h
       IN FillExistingFrom(h1, s, arr, na, i + 1)

\* mutant: the resolved values are filled into the document's own array
FillExistingInSource(h, s, arr, na) == FillExistingFrom(h, s, arr, arr.a, 0)

\* for (let i = 0; i < ref.length; i++) ...: the resolved value of every
\* element whose path is in subsByPath is put at its index
FillExisting(h, s, arr, na) == FillExistingFrom(h, s, arr, na, 0)

\* mutant: oldDoc || data[key], the key forgotten
OldArrayForgetsKey(h, old, dataA, key) ==
  IF Truthy(old) THEN old ELSE Get(h, Ptr(dataA), key)

\* mutant: oldDoc[key] alone, without the array being filled as fallback
OldArrayNoFallback(h, old, dataA, key) == Get(h, old, key)

\* oldDoc[key] || data[key]
OldArray(h, old, dataA, key) ==
  IF Truthy(Get(h, old, key)) THEN Get(h, old, key) ELSE Get(h, Ptr(dataA), key)

\* mutant: in an array only resolved references are filled in, the rest of
\* the indices are left empty
CopyAsIsLeavesHoles(h, dataA, key, ref) ==
  IF h[dataA].kind = "arr" THEN h ELSE Put(h, dataA, key, ref)

\* data[key] = ref: null, undefined, dates, timestamps, geo points and
\* every value that is no object are copied as they are
CopyAsIs(h, dataA, key, ref) == Put(h, dataA, key, ref)

RECURSIVE recursiveExtract(_, _, _, _, _, _), ExtractKeys(_, _, _, _, _, _, _, _)

\* one pass of the for-in loop over doc: ks are doc's enumerable keys
ExtractKeys(S, s, docA, old, path, dataA, ks, i) ==
  IF i > Len(ks) THEN S
  ELSE
    LET key == ks[i]
        ref == S.h[docA].p[key].v
        S1 ==
          IF ref.t \in {"undef", "null", "date"}
          THEN [S EXCEPT !.h = CopyAsIs(S.h, dataA, key, ref)]
          ELSE IF isDocumentRef(ref)
          THEN [h |-> Put(S.h, dataA, key, RefValue(S.h, s, old, path, key, ref)),
                r |-> (SubKey(path, key) :> RefEntry(ref)) @@ S.r]
          ELSE IF IsArray(S.h, ref)
          THEN LET h1 == Put(Append(S.h, NewArray(S.h[ref.a].len)), dataA, key,
                             Ptr(Len(S.h) + 1))
                   h2 == FillExisting(h1, s, ref, Get(h1, Ptr(dataA), key).a)
               IN recursiveExtract([S EXCEPT !.h = h2], s, ref.a,
                                   OldArray(h2, old, dataA, key),
                                   path \o key \o ".",
                                   Get(h2, Ptr(dataA), key).a)
          ELSE IF isObject(ref)
          THEN LET h1 == Put(Append(S.h, NewObject), dataA, key, Ptr(Len(S.h) + 1))
               IN recursiveExtract([S EXCEPT !.h = h1], s, ref.a,
                                   Get(h1, old, key),
                                   path \o key \o ".",
                                   Get(h1, Ptr(dataA), key).a)
          ELSE [S EXCEPT !.h = CopyAsIs(S.h, dataA, key, ref)]
    IN ExtractKeys(S1, s, docA, old, path, dataA, ks, i + 1)

\* oldDoc = oldDoc || {}; the fresh {} reads as undefined at every key, as a
\* falsy oldDoc does under Get
recursiveExtract(S, s, docA, oldV, path, dataA) ==
  LET old == IF Truthy(oldV) THEN oldV ELSE Undef
      h1 == CopyNonEnumerable(S.h, docA, dataA)
  IN ExtractKeys([S EXCEPT !.h = h1], s, docA, old, path, dataA,
                 EnumKeys(S.h[docA]), 1)

\* extractRefs(doc, oldDoc, subs, options): the heap after the call, data and refs
extractRefs(h, d, o, s) ==
  IF ~isPOJO(h, d) THEN [h |-> h, data |-> d, refs |-> EmptyMap]
  ELSE LET root == Len(h) + 1
           S == recursiveExtract([h |-> Append(h, NewObject), r |-> EmptyMap],
                                 s, d.a, o, "", root)
       IN [h |-> S.h, data |-> Ptr(root), refs |-> S.r]

----------------------------------------------------------------------------
(* firestoreDefaultConverter.fromFirestore (firestore/utils.ts)            *)

\* a Firestore snapshot: exists(), the object data() returns, id, metadata, ref
SelfRef == Ref("docs/1", "none")

\* Object.defineProperties(data, {'.id': ..., '.metadata': ..., '.ref': ...}):
\* value-only descriptors are non-enumerable and read-only
fromFirestore(h, sn) ==
  IF sn.exists
  THEN [h |-> DefineProperty(
                DefineProperty(
                  DefineProperty(h, sn.data.a, ".id", Desc(Prim("1"), FALSE, FALSE)),
                  sn.data.a, ".metadata", Desc(Opaque("meta"), FALSE, FALSE)),
                sn.data.a, ".ref", Desc(SelfRef, FALSE, FALSE)),
        v |-> sn.data]
  ELSE [h |-> h, v |-> Null]

----------------------------------------------------------------------------
(* createRecordFromDatabaseSnapshot (database/utils.ts)                    *)

\* the four metadata descriptors of a snapshot, with the given visibility
MetaNames == <<".key", ".priority", ".ref", ".size">>

MetaValue(sn, k) ==
  CASE k = ".key" -> sn.key
    [] k = ".priority" -> sn.priority
    [] k = ".ref" -> sn.ref
    [] k = ".size" -> sn.size

RECURSIVE DefineMeta(_, _, _, _, _, _)
DefineMeta(h, a, sn, e, w, i) ==
  IF i > Len(MetaNames) THEN h
  ELSE DefineMeta(DefineProperty(h, a, MetaNames[i],
                                 Desc(MetaValue(sn, MetaNames[i]), e, w)),
                  a, sn, e, w, i + 1)

\* mutant: the metadata is assigned as ordinary properties
DecorateObjectVisible(h, sn) ==
  [h |-> DefineMeta(h, sn.val.a, sn, TRUE, TRUE, 1), v |-> sn.val]

\* the record of an object value: the value itself, the four metadata
\* properties defined on it by value-only descriptors
DecorateObject(h, sn) ==
  [h |-> DefineMeta(h, sn.val.a, sn, FALSE, FALSE, 1), v |-> sn.val]

\* the record of a primitive value: an object literal { $value, '.key', ... }
WrapPrimitive(h, sn) ==
  [h |-> DefineMeta(Put(Append(h, NewObject), Len(h) + 1, "$value", sn.val),
                    Len(h) + 1, sn, TRUE, TRUE, 1),
   v |-> Ptr(Len(h) + 1)]

createRecordFromDatabaseSnapshot(h, sn) ==
  IF ~sn.exists THEN [h |-> h, v |-> Null]
  ELSE IF isObject(sn.val) THEN DecorateObject(h, sn)
  ELSE WrapPrimitive(h, sn)

----------------------------------------------------------------------------
(* Inputs.  A tree describes a value to build in the heap: a value itself, *)
(* an object [t |-> "O", kids |-> <<[k, e, c], ...>>] (property k,         *)
(* enumerable e, child tree c) or an array [t |-> "A", el |-> <<c, ...>>]. *)

ObjT(kids) == [t |-> "O", kids |-> kids]
ArrT(el) == [t |-> "A", el |-> el]
Kid(k, c) == [k |-> k, e |-> TRUE, c |-> c]
HiddenKid(k, c) == [k |-> k, e |-> FALSE, c |-> c]

RECURSIVE Load(_, _), LoadKids(_, _, _, _)

\* the heap with the children kids[i..] built, and their values
LoadKids(h, kids, i, acc) ==
  IF i > Len(kids) THEN [h |-> h, vs |-> acc]
  ELSE LET r == Load(h, kids[i])
       IN LoadKids(r.h, kids, i + 1, Append(acc, r.v))

\* the heap with tree tr built in it, and the value of tr
Load(h, tr) ==
  IF tr.t = "O"
  THEN LET r == LoadKids(h, [i \in 1..Len(tr.kids) |-> tr.kids[i].c], 1, <<>>)
           cell == [kind |-> "obj",
                    keys |-> [i \in 1..Len(tr.kids) |-> tr.kids[i].k],
                    p |-> [k \in {tr.kids[i].k : i \in 1..Len(tr.kids)} |->
                             LET i == CHOOSE j \in 1..Len(tr.kids) : tr.kids[j].k = k
                             IN Desc(r.vs[i], tr.kids[i].e, TRUE)],
                    len |-> 0]
       IN [h |-> Append(r.h, cell), v |-> Ptr(Len(r.h) + 1)]
  ELSE IF tr.t = "A"
  THEN LET r == LoadKids(h, tr.el, 1, <<>>)
           cell == [kind |-> "arr",
                    keys |-> [i \in 1..Len(tr.el) |-> IndexKey(i - 1)],
                    p |-> [k \in {IndexKey(i - 1) : i \in 1..Len(tr.el)} |->
                             LET i == CHOOSE j \in 1..Len(tr.el) : IndexKey(j - 1) = k
                             IN Desc(r.vs[i], TRUE, TRUE)],
                    len |-> Len(tr.el)]
       IN [h |-> Append(r.h, cell), v |-> Ptr(Len(r.h) + 1)]
  ELSE [h |-> h, v |-> tr]

P1 == "users/1"
P2 == "users/2"
\* a reference without a converter and one with its own
RefA == Ref(P1, "none")
RefB == Ref(P2, "own")

\* the document users/1 resolves to; every heap starts with it at address 1
Resolved == Ptr(1)
ResolvedTree == ObjT(<<Kid("name", Prim("bob"))>>)

\* what data() of a registry entry returns: the resolved document of users/1,
\* null for users/2 (a reference to a document that does not exist)
DataOf(path) == IF path = P1 THEN Resolved ELSE Null

SeqsUpTo(S, n) == UNION {[1..m -> S] : m \in 0..n}

Leaves == {Null, Prim("x"), Opaque("d"), RefA, RefB}

Objects ==
  {ObjT(<<Kid("b", c)>>) : c \in {Prim("x"), RefA, RefB}}
    \cup {ObjT(<<Kid("b", RefA), HiddenKid("x", Prim("1"))>>),
          ObjT(<<Kid("b", ArrT(<<RefA>>))>>)}

Elements == {Prim("x"), RefA, RefB, ObjT(<<Kid("b", RefA)>>)}

\* arrays of at most MaxLen elements, and an array in an array
Arrays ==
  {ArrT(el) : el \in SeqsUpTo(Elements, MaxLen)}
    \cup {ArrT(<<ArrT(<<RefA>>)>>)}

\* documents: a field a holding an array, or an optional field a holding a
\* scalar, a reference or an object beside an optional field named "a.b"
DocTrees ==
  {ObjT(<<Kid("a", c)>>) : c \in Arrays}
    \cup {ObjT(a \o ab) :
            a \in {<<>>} \cup {<<Kid("a", c)>> : c \in Leaves \cup Objects},
            ab \in {<<>>} \cup {<<Kid("a.b", c)>> : c \in {Prim("x"), RefA}}}

\* previous documents: absent, trees of resolved values and path strings as
\* an earlier call and the binder leave them, and a tree holding a reference
OldDocTrees ==
  {Undef,
   ObjT(<<Kid("a", Resolved), Kid("a.b", Prim(P1))>>),
   ObjT(<<Kid("a", ArrT(<<Resolved, Prim(P2)>>))>>),
   ObjT(<<Kid("a", ObjT(<<Kid("b", Resolved)>>))>>),
   ObjT(<<Kid("a", RefA)>>)}

\* the subscription keys of the references of a tree, as the binder
\* registers them
RECURSIVE RefKeysOf(_, _)
RefKeysOf(tr, prefix) ==
  IF tr.t = "ref" THEN {prefix}
  ELSE IF tr.t = "O"
  THEN UNION {IF tr.kids[i].e
              THEN RefKeysOf(tr.kids[i].c,
                             IF prefix = "" THEN tr.kids[i].k
                             ELSE prefix \o "." \o tr.kids[i].k)
              ELSE {} : i \in 1..Len(tr.kids)}
  ELSE IF tr.t = "A"
  THEN UNION {RefKeysOf(tr.el[i], prefix \o "." \o IndexKey(i - 1)) :
                i \in 1..Len(tr.el)}
  ELSE {}

\* a key no reference of the documents has: a subscription of another
\* position, which only feeds the path index
OtherKey == "z"

RECURSIVE RegistryOf(_)
RegistryOf(f) ==
  IF DOMAIN f = {} THEN <<>>
  ELSE LET k == CHOOSE x \in DOMAIN f : TRUE
       IN <<[key |-> k, path |-> f[k], data |-> DataOf(f[k])]>>
            \o RegistryOf([x \in DOMAIN f \ {k} |-> f[x]])

\* registries of at most MaxSubs entries over the given keys.  The walker
\* tests a key only at a reference of the document, so the keys are those
\* and OtherKey.
Registries(keys) ==
  {RegistryOf(f) :
     f \in UNION {[K -> {P1, P2}] :
                    K \in {K \in SUBSET keys : Cardinality(K) <= MaxSubs}}}

NoSnap == [exists |-> FALSE, val |-> Null, key |-> Null, priority |-> Null,
           ref |-> Null, size |-> Prim("0")]
NoOut == [data |-> Undef, refs |-> EmptyMap]

----------------------------------------------------------------------------
(* The document cycle: a snapshot is converted, decomposed against the     *)
(* previous document and the registry, and decomposed again with the       *)
(* first result as the previous document.                                  *)

Init ==
  \E st \in DocTrees \cup {Null}, ot \in OldDocTrees :
  \E s \in Registries(RefKeysOf(st, "") \cup {OtherKey}) :
    LET h0 == Load(<<>>, ResolvedTree).h
        d == Load(h0, st)
        o == Load(d.h, ot)
    IN /\ heap = o.h
       /\ snap = [exists |-> st # Null, data |-> d.v]
       /\ oldDoc = o.v
       /\ subs = s
       /\ pc = "snapshot"
       /\ doc = Undef
       /\ pre = <<>>
       /\ out = NoOut
       /\ first = NoOut
       /\ dbSnap = NoSnap
       /\ record = Undef

\* the converter turns the snapshot into the document
FromFirestore ==
  /\ pc = "snapshot"
  /\ LET r == fromFirestore(heap, snap)
     IN heap' = r.h /\ doc' = r.v
  /\ pc' = "doc"
  /\ UNCHANGED <<snap, oldDoc, subs, pre, out, first, dbSnap, record>>

\* extractRefs(doc, oldDoc, subs, options)
ExtractRefs ==
  /\ pc = "doc"
  /\ LET r == extractRefs(heap, doc, oldDoc, subs)
     IN /\ heap' = r.h
        /\ out' = [data |-> r.data, refs |-> r.refs]
  /\ pre' = heap
  /\ pc' = "extracted"
  /\ UNCHANGED <<snap, doc, oldDoc, subs, first, dbSnap, record>>

\* the next cycle: the same document and registry, the first result's data
\* as the previous document
ExtractAgain ==
  /\ pc = "extracted"
  /\ LET r == extractRefs(heap, doc, out.data, subs)
     IN /\ heap' = r.h
        /\ out' = [data |-> r.data, refs |-> r.refs]
  /\ first' = out
  /\ oldDoc' = out.data
  /\ pre' = heap
  /\ pc' = "again"
  /\ UNCHANGED <<snap, doc, subs, dbSnap, record>>

Next == FromFirestore \/ ExtractRefs \/ ExtractAgain

Spec == Init /\ [][Next]_vars

----------------------------------------------------------------------------
(* The realtime-database cycle: a snapshot is turned into a record.        *)

DbValueTrees ==
  {Prim("x"), Prim(""), Prim("7"),
   ObjT(<<>>), ObjT(<<Kid("n", Prim("x"))>>),
   ObjT(<<Kid("n", Prim("x")), Kid("m", Prim("y"))>>),
   ArrT(<<Prim("x")>>)}

\* the number of children of a value
SizeOf(tr) ==
  IF tr.t = "O" THEN IndexKey(Len(tr.kids))
  ELSE IF tr.t = "A" THEN IndexKey(Len(tr.el))
  ELSE "0"

InitDb ==
  \E vt \in DbValueTrees \cup {Null},
     k \in {Null, Prim("k1"), Prim("k2")},
     pr \in {Null, Prim("1"), Prim("high")} :
    LET v == Load(<<>>, vt)
    IN /\ heap = v.h
       /\ dbSnap = [exists |-> vt # Null, val |-> v.v, key |-> k,
                    priority |-> pr, ref |-> Ref("db/node", "none"),
                    size |-> Prim(SizeOf(vt))]
       /\ pc = "dbSnapshot"
       /\ record = Undef
       /\ pre = <<>>
       /\ snap = [exists |-> FALSE, data |-> Null]
       /\ doc = Undef
       /\ oldDoc = Undef
       /\ subs = <<>>
       /\ out = NoOut
       /\ first = NoOut

CreateRecord ==
  /\ pc = "dbSnapshot"
  /\ LET r == createRecordFromDatabaseSnapshot(heap, dbSnap)
     IN heap' = r.h /\ record' = r.v
  /\ pre' = heap
  /\ pc' = "record"
  /\ UNCHANGED <<snap, doc, oldDoc, subs, out, first, dbSnap>>

NextDb == CreateRecord

SpecDb == InitDb /\ [][NextDb]_vars

----------------------------------------------------------------------------
(* Vocabulary of the properties.  A position is the sequence of property   *)
(* names from the root of a document to a value in it.                     *)

RECURSIVE Positions(_, _), At(_, _, _), KeyOf(_), DeepEqual(_, _, _), HasRef(_, _)

\* the positions of the enumerable values under v
Positions(h, v) ==
  IF ~IsPtr(v) THEN {}
  ELSE UNION {{<<k>>} \cup {<<k>> \o q : q \in Positions(h, h[v.a].p[k].v)} :
                k \in {x \in DOMAIN h[v.a].p : h[v.a].p[x].e}}

\* the value at position q under v, undefined where the path breaks off
At(h, v, q) == IF q = <<>> THEN v ELSE At(h, Get(h, v, Head(q)), Tail(q))

\* the subscription key of a position: its names joined by '.'
KeyOf(q) == IF Len(q) = 1 THEN q[1] ELSE q[1] \o "." \o KeyOf(Tail(q))

Parent(q) == SubSeq(q, 1, Len(q) - 1)
Last(q) == q[Len(q)]

\* equal in value: the same scalars, and containers of the same kind, length,
\* property names, order and visibility whose values are equal in value
DeepEqual(h, v, w) ==
  IF IsPtr(v) /\ IsPtr(w)
  THEN \/ v = w
       \/ /\ h[v.a].kind = h[w.a].kind
          /\ h[v.a].len = h[w.a].len
          /\ h[v.a].keys = h[w.a].keys
          /\ \A k \in DOMAIN h[v.a].p :
               /\ h[v.a].p[k].e = h[w.a].p[k].e
               /\ h[v.a].p[k].w = h[w.a].p[k].w
               /\ DeepEqual(h, h[v.a].p[k].v, h[w.a].p[k].v)
  ELSE v = w

\* a raw reference is an enumerable value at or under v
HasRef(h, v) ==
  \/ v.t = "ref"
  \/ \E q \in Positions(h, v) : At(h, v, q).t = "ref"

\* extractRefs has returned for a structured doc
Called == pc \in {"extracted", "again"} /\ isPOJO(heap, doc)

DocPositions == Positions(heap, doc)
RefPositions == {q \in DocPositions : At(heap, doc, q).t = "ref"}
ArrayPositions == {q \in DocPositions : IsArray(heap, At(heap, doc, q))}
\* the positions of doc's containers, the root included
ContainerPositions == {<<>>} \cup {q \in DocPositions : IsPtr(At(heap, doc, q))}
\* a position is a field of an object, or an element of an array
IsField(q) == ~IsArray(heap, At(heap, doc, Parent(q)))
IsElement(q) == IsArray(heap, At(heap, doc, Parent(q)))

DataAt(q) == At(heap, out.data, q)
OldAt(q) == At(heap, oldDoc, q)
Registered(q) == InSubs(subs, KeyOf(q))
\* what data() of the registry entry of key k returns
EntryData(k) == subs[CHOOSE i \in 1..Len(subs) : subs[i].key = k].data
\* the element at q is reference-like and its path is in the path index
Indexed(q) == InPathIndex(heap, subs, At(heap, doc, q))
IndexValue(q) == subsByPath(subs)[Get(heap, At(heap, doc, q), "path").v]

PathAt(q) == Prim(At(heap, doc, q).path)
Elems(q) == {q \o <<IndexKey(i)>> : i \in 0..(heap[At(heap, doc, q).a].len - 1)}
IsScalar(v) == v.t \in {"undef", "null", "prim", "date"}
Range(f) == {f[x] : x \in DOMAIN f}

----------------------------------------------------------------------------
(* The claims *)

\* C1 as stated: whatever oldDoc and the registry are, no raw reference is
\* an enumerable value of data at any depth.
C1_Original == Called => ~HasRef(heap, out.data)

\* C1 (amended): when neither oldDoc nor a value the registry resolves to
\* holds a raw reference, data holds none at any depth, and every position
\* that held a reference in doc holds the reference's path string, the value
\* oldDoc holds at that position, or the value the path index resolves the
\* reference to.
C1_NoRawReference ==
  Called /\ ~HasRef(heap, oldDoc) =>
    /\ ~HasRef(heap, out.data)
    /\ \A q \in RefPositions :
         \/ DataAt(q) = PathAt(q)
         \/ DataAt(q) = OldAt(q)
         \/ IsElement(q) /\ Indexed(q) /\ DataAt(q) = IndexValue(q)

\* a previous document without references, a registered reference that
\* resolved to the previous document's value, a reference in an array
C1_Witness ==
  /\ pc = "extracted" /\ isPOJO(heap, doc)
  /\ Truthy(oldDoc) /\ ~HasRef(heap, oldDoc)
  /\ \E q \in RefPositions : IsElement(q) /\ Registered(q) /\ DataAt(q) = Resolved
  /\ \E q \in RefPositions : IsElement(q) /\ DataAt(q) = PathAt(q)

C3_Original ==
  Called =>
    /\ \A q \in DocPositions :
         IsField(q) /\ At(heap, doc, q).t = "prim" => DataAt(q) = At(heap, doc, q)
    /\ \A q \in RefPositions :
         IsField(q) /\ Registered(q) => DataAt(q) = EntryData(KeyOf(q))

\* C3 (amended): scalar fields are copied, and a reference field whose key is
\* registered holds the object the registry entry's data() returns exactly
\* when oldDoc holds that object at the field: the value comes from oldDoc,
\* not from the registry.
C3_FromOldDoc ==
  Called =>
    /\ \A q \in DocPositions :
         IsField(q) /\ At(heap, doc, q).t = "prim" => DataAt(q) = At(heap, doc, q)
    /\ \A q \in RefPositions :
         IsField(q) /\ Registered(q) =>
           (DataAt(q) = EntryData(KeyOf(q)) <=> OldAt(q) = EntryData(KeyOf(q)))

\* { "a.b": "x", a: <ref> }, key a registered and resolved, oldDoc.a the
\* resolved object
C3_Witness ==
  /\ pc = "extracted" /\ isPOJO(heap, doc)
  /\ At(heap, doc, <<"a">>) = RefA /\ At(heap, doc, <<"a.b">>) = Prim("x")
  /\ InSubs(subs, "a") /\ EntryData("a") = Resolved
  /\ OldAt(<<"a">>) = Resolved
  /\ DataAt(<<"a">>) = Resolved /\ DataAt(<<"a.b">>) = Prim("x")

\* C4: refs has exactly one entry per reference-valued position of doc.
C4_OneEntryPerReference ==
  Called => Cardinality(DOMAIN out.refs) = Cardinality(RefPositions)

\* C5 as stated: an output array has the length of the input array, and every
\* index whose element has no matching resolved subscription is a hole.
C5_Original ==
  Called =>
    \A q \in ArrayPositions :
      /\ IsArray(heap, DataAt(q))
      /\ heap[DataAt(q).a].len = heap[At(heap, doc, q).a].len
      /\ \A e \in Elems(q) : ~Indexed(e) => ~HasOwn(heap, DataAt(q).a, Last(e))

\* C5 (amended): an output array has the length of the input array and no
\* hole: index i holds the input's element i as the walker decomposes it, a
\* scalar copied, a reference without a registered key as its path string, a
\* nested object or array as a fresh container of the same kind.
C5_IndexAligned ==
  Called =>
    \A q \in ArrayPositions :
      /\ IsArray(heap, DataAt(q))
      /\ heap[DataAt(q).a].len = heap[At(heap, doc, q).a].len
      /\ \A e \in Elems(q) :
           /\ HasOwn(heap, DataAt(q).a, Last(e))
           /\ IsScalar(At(heap, doc, e)) => DataAt(e) = At(heap, doc, e)
           /\ At(heap, doc, e).t = "ref" /\ ~Registered(e) => DataAt(e) = PathAt(e)
           /\ IsPtr(At(heap, doc, e)) =>
                /\ IsPtr(DataAt(e))
                /\ heap[DataAt(e).a].kind = heap[At(heap, doc, e).a].kind
                /\ DataAt(e).a > Len(pre)

\* an array of a scalar and an indexed, registered reference
C5_Witness ==
  /\ pc = "extracted" /\ isPOJO(heap, doc)
  /\ \E q \in ArrayPositions :
       /\ heap[At(heap, doc, q).a].len = 2
       /\ At(heap, doc, q \o <<"0">>) = Prim("x")
       /\ DataAt(q \o <<"0">>) = Prim("x")
       /\ Indexed(q \o <<"1">>) /\ Registered(q \o <<"1">>)
       /\ DataAt(q \o <<"1">>) = Resolved

\* C6 as stated: the second result equals the first in value, and every
\* nested object or array of the second is the same instance as in the first.
C6_Original ==
  pc = "again" /\ isPOJO(heap, doc) =>
    /\ DeepEqual(heap, first.data, out.data)
    /\ \A q \in ContainerPositions \ {<<>>} : DataAt(q) = At(heap, first.data, q)

\* C6 (amended): the second result equals the first in value; a reference
\* position whose key is registered holds the same instance in both; the
\* nested objects and arrays the walker builds are allocated anew by each call.
C6_Idempotent ==
  pc = "again" /\ isPOJO(heap, doc) =>
    /\ DeepEqual(heap, first.data, out.data)
    /\ \A q \in RefPositions : Registered(q) => DataAt(q) = At(heap, first.data, q)
    /\ \A q \in ContainerPositions :
         DataAt(q).a > Len(pre) /\ DataAt(q) # At(heap, first.data, q)

\* a second call over a nested array whose registered element is resolved
C6_Witness ==
  /\ pc = "again" /\ isPOJO(heap, doc)
  /\ \E q \in RefPositions :
       IsElement(q) /\ Registered(q) /\ DataAt(q) = Resolved

\* C7: every non-enumerable own property of doc and of each nested container
\* is on the corresponding output container with the same descriptor, and is
\* absent from the enumeration of the output.
C7_HiddenPreserved ==
  Called =>
    \A q \in ContainerPositions :
      \A k \in DOMAIN heap[At(heap, doc, q).a].p :
        ~heap[At(heap, doc, q).a].p[k].e =>
          /\ HasOwn(heap, DataAt(q).a, k)
          /\ heap[DataAt(q).a].p[k] = heap[At(heap, doc, q).a].p[k]
          /\ k \notin Range(EnumKeys(heap[DataAt(q).a]))

\* a converted document whose nested object carries a hidden x
C7_Witness ==
  /\ pc = "extracted" /\ isPOJO(heap, doc)
  /\ HasOwn(heap, doc.a, ".id")
  /\ HasOwn(heap, out.data.a, ".id")
  /\ IsPtr(DataAt(<<"a">>))
  /\ HasOwn(heap, DataAt(<<"a">>).a, "x")
  /\ RefPositions # {}

\* C8: every container that existed before the call (those of doc, oldDoc and
\* the registry's resolved values among them) is as it was, and so is the
\* registry; the call writes only containers it allocates.
C8_InputsUnchanged ==
  Called => SubSeq(heap, 1, Len(pre)) = pre

\* an output slot aliases a container of oldDoc or of the registry
C8_Witness ==
  /\ pc = "extracted" /\ isPOJO(heap, doc)
  /\ Len(heap) > Len(pre) + 1
  /\ \E q \in RefPositions : IsPtr(DataAt(q)) /\ DataAt(q).a <= Len(pre)
  /\ \E q \in RefPositions : IsElement(q) /\ Indexed(q)

\* the four metadata properties are read by direct access with the
\* snapshot's values
MetaExposed ==
  \A i \in 1..Len(MetaNames) :
    /\ HasOwn(heap, record.a, MetaNames[i])
    /\ Get(heap, record, MetaNames[i]) = MetaValue(dbSnap, MetaNames[i])

MetaHidden ==
  \A i \in 1..Len(MetaNames) :
    /\ ~heap[record.a].p[MetaNames[i]].e
    /\ ~heap[record.a].p[MetaNames[i]].w

\* C9 as stated: null for an absent snapshot; for a present one, container or
\* scalar, the four metadata properties are exposed, read-only and hidden
\* from enumeration.
C9_Original ==
  pc = "record" =>
    IF ~dbSnap.exists THEN record = Null
    ELSE IsPtr(record) /\ MetaExposed /\ MetaHidden

\* C9 (amended): null for an absent snapshot; a container value is returned
\* itself with the four metadata properties exposed, read-only and hidden
\* from enumeration; a scalar value is wrapped in a new regular object whose
\* $value is the scalar and whose four metadata properties are exposed but
\* enumerable and writable.
C9_Record ==
  pc = "record" =>
    IF ~dbSnap.exists THEN record = Null
    ELSE IF isObject(dbSnap.val)
    THEN /\ record = dbSnap.val
         /\ MetaExposed /\ MetaHidden
         /\ \A k \in DOMAIN pre[record.a].p : heap[record.a].p[k] = pre[record.a].p[k]
    ELSE /\ IsPtr(record) /\ record.a > Len(pre)
         /\ Get(heap, record, "$value") = dbSnap.val
         /\ MetaExposed
         /\ \A i \in 1..Len(MetaNames) :
              heap[record.a].p[MetaNames[i]].e /\ heap[record.a].p[MetaNames[i]].w
         /\ EnumKeys(heap[record.a]) = <<"$value">> \o MetaNames

\* the record of a scalar snapshot: a wrapper that enumerates its metadata
C9_Witness ==
  /\ pc = "record" /\ dbSnap.exists /\ dbSnap.val = Prim("x")
  /\ dbSnap.key # Null
  /\ IsPtr(record) /\ Len(EnumKeys(heap[record.a])) = 5

\* C10 as stated: the value the fast path puts at the index of an array
\* element whose path is in the path index is the value at that index of the
\* final output array.
C10_Original ==
  Called =>
    \A q \in RefPositions :
      IsElement(q) /\ Indexed(q) => DataAt(q) = IndexValue(q)

\* C10 (amended): the recursion assigns the index again.  The fast path's
\* value is the final one when the element's subscription key is registered
\* and oldDoc holds no truthy value at the array's position; with a truthy
\* value there the index holds what that value holds at the index; with the
\* key not registered it holds the reference's path string.
C10_FastPath ==
  Called =>
    \A q \in RefPositions :
      IsElement(q) /\ Indexed(q) =>
        IF ~Registered(q) THEN DataAt(q) = PathAt(q)
        ELSE IF Truthy(OldAt(Parent(q))) THEN DataAt(q) = OldAt(q)
        ELSE DataAt(q) = IndexValue(q)

\* the fast path's resolved document survives the recursion
C10_Witness ==
  /\ pc = "extracted" /\ isPOJO(heap, doc)
  /\ \E q \in RefPositions :
       /\ IsElement(q) /\ Indexed(q) /\ Registered(q)
       /\ ~Truthy(OldAt(Parent(q)))
       /\ IndexValue(q) = Resolved /\ DataAt(q) = Resolved

====
